---- MODULE Spec2Model ----
(***************************************************************************)
(* A model of sync-github-commits.ts: the command-line entry point main,   *)
(* the cache store (loadCache, saveCache, cleanupCache,                    *)
(* commitExistsInCache), the per-commit operations (getCommitDetails,      *)
(* getCommitFiles, createNotionCommit) and the orchestrator                *)
(* syncRecentCommits.  One invocation of the script is a process; its      *)
(* position between two awaited calls is its pc.  The cache file and the   *)
(* rows of the Notion database outlive an invocation.                      *)
(***************************************************************************)
EXTENDS Integers, Sequences, FiniteSets, TLC

\* ------------------------------------------------------------------ bounds

\* Invocations of the script in one behaviour of Spec (caps the clock and
\* the rows).
MaxRuns == 2

\* Longest commit list the host returns to one request in Spec, where runs
\* follow one another (per_page is 50 in the source).
MaxCommits == 3

\* Longest commit list the host returns in SpecRun, which follows one run.
MaxBatch == 3

\* MAX_CACHE_SIZE is 1000 in the source (line 24); the model keeps the name
\* and scales the value so that a run can overflow the cache.
MAX_CACHE_SIZE == 2

\* sha.substring(0, 7) in the source (line 171); the model's identifiers are
\* two characters long and the short form keeps the first SHORT_LEN of them.
SHORT_LEN == 1

\* Longest input sequence handed to cleanupCache in SpecCleanup.
MaxLen == 5

\* Longest commit list in SpecMain.
MaxShort == 1

\* Longest commit list in SpecRepeat.
MaxRepeat == 2

\* Most words of a commit message in SpecFeature.
MaxWords == 3

\* Most words and phrases of a commit message in SpecImpact.
MaxImpactWords == 2

\* Longest commit list of two overlapping runs.
MaxOverlap == 2

\* ------------------------------------------------------------- input sets

\* Full commit identifiers; the first two share their short form.
SHAS == { <<"a", "1">>, <<"a", "2">>, <<"b", "1">> }

\* Every sequence over S of length at most n.
SeqUpTo(S, n) == UNION { [1..k -> S] : k \in 0..n }

\* No identifier occurs twice in s.
NoDup(s) == \A j, k \in 1..Len(s) : s[j] = s[k] => j = k

\* The commit lists a listCommits request answers with in Spec: the host
\* lists each commit once.
CommitLists == { s \in SeqUpTo(SHAS, MaxCommits) : NoDup(s) }

\* The commit lists of SpecRun: any sequence, repeated identifiers included.
BatchLists == SeqUpTo(SHAS, MaxBatch)

\* The processes (invocations that may overlap in time).
Procs == {1, 2}

\* ------------------------------------------------------- pure definitions

\* String.prototype.substring(0, n) on a sequence of characters.
substring(s, n) == SubSeq(s, 1, IF n < Len(s) THEN n ELSE Len(s))

\* The short identifier getCommitDetails puts in the commit record.
ShortSha(sha) == substring(sha, SHORT_LEN)

\* Array.prototype.slice(-n): the last n entries, the whole array when it is
\* no longer than n.
sliceLast(s, n) == IF Len(s) <= n THEN s ELSE SubSeq(s, Len(s) - n + 1, Len(s))

\* Array.prototype.includes.
includes(s, x) == \E k \in 1..Len(s) : s[k] = x

\* cleanupCache that keeps the oldest entries: slice(0, MAX_CACHE_SIZE).
cleanupCache_keepOldest(shas) ==
  IF Len(shas) > MAX_CACHE_SIZE THEN SubSeq(shas, 1, MAX_CACHE_SIZE) ELSE shas

\* cleanupCache on the processedSHAs of a cache.
cleanupCache(shas) ==
  IF Len(shas) > MAX_CACHE_SIZE THEN sliceLast(shas, MAX_CACHE_SIZE) ELSE shas

\* commitExistsInCache that looks the short identifier up.
commitExistsInCache_short(sha, cache) == includes(cache.processedSHAs, ShortSha(sha))

\* commitExistsInCache(sha, cache).
commitExistsInCache(sha, cache) == includes(cache.processedSHAs, sha)

\* The cache loadCache returns when the file is missing or unreadable.
FreshCache(t) == [processedSHAs |-> <<>>, lastSync |-> t, totalProcessed |-> 0]

\* The cache file: absent, unparseable, or the JSON document saveCache wrote.
MissingFile == [kind |-> "missing", processedSHAs |-> <<>>, lastSync |-> 0, totalProcessed |-> 0]
CorruptFile == [kind |-> "corrupt", processedSHAs |-> <<>>, lastSync |-> 0, totalProcessed |-> 0]
JsonFile(cache) ==
  [kind |-> "json", processedSHAs |-> cache.processedSHAs,
   lastSync |-> cache.lastSync, totalProcessed |-> cache.totalProcessed]

\* loadCache keeping the counter but not the identifiers of the file.
loadCache_noIds(f, t) ==
  IF f.kind = "json"
    THEN [processedSHAs |-> <<>>, lastSync |-> f.lastSync,
          totalProcessed |-> f.totalProcessed]
    ELSE FreshCache(t)

\* loadCache keeping the identifiers but not the counter of the file.
loadCache_noTotal(f, t) ==
  IF f.kind = "json"
    THEN [processedSHAs |-> f.processedSHAs, lastSync |-> f.lastSync,
          totalProcessed |-> 0]
    ELSE FreshCache(t)

\* loadCache: the file's content when it exists and parses, a fresh cache
\* otherwise.
loadCache(f, t) ==
  IF f.kind = "json"
    THEN [processedSHAs |-> f.processedSHAs, lastSync |-> f.lastSync,
          totalProcessed |-> f.totalProcessed]
    ELSE FreshCache(t)

\* ------------------------------------------------------------------ state

VARIABLES
  file,    \* the cache file .github-sync-cache.json
  rows,    \* the rows of the Notion database: how many of each content
  now,     \* the clock new Date() reads; one tick per invocation
  proc,    \* per process: the locals of main and syncRecentCommits
  cin,     \* SpecCleanup, SpecFeature, SpecImpact: the input of the function
  cout,    \* SpecCleanup, SpecFeature, SpecImpact: its result
  cdone,   \* SpecCleanup, SpecFeature, SpecImpact: whether it has been applied
  argv     \* SpecMain: the command line and environment of the last invocation

vars == <<file, rows, now, proc, cin, cout, cdone, argv>>

\* A listCommits request: whether it was made, whether it answered, and the
\* list it answered with.
NoList == [asked |-> FALSE, ok |-> FALSE, resp |-> <<>>]
Answer(resp) == [asked |-> TRUE, ok |-> TRUE, resp |-> resp]
Threw == [asked |-> TRUE, ok |-> FALSE, resp |-> <<>>]

\* The commit record getCommitDetails builds: the short identifier, and the
\* page url, which holds the full one.
CommitRecord(sha) == [sha |-> ShortSha(sha), url |-> sha]

\* The rows createNotionCommit can make.
RowSet == { CommitRecord(sha) : sha \in SHAS }

\* No invocation yet.
NoArgv ==
  [args |-> <<>>, file |-> MissingFile,
   env |-> [NOTION_TOKEN |-> FALSE, GITHUB_TOKEN |-> FALSE,
            NOTION_DATABASE_ID |-> FALSE, GITHUB_OWNER |-> FALSE,
            GITHUB_REPO |-> FALSE]]

\* No run before this one, or none kept.
NoPrev ==
  [ran |-> FALSE, commits |-> <<>>, loaded |-> <<>>, appended |-> <<>>,
   saved |-> FALSE]

\* A process that has not been started.
IdleProc ==
  [pc |-> "idle", exitCode |-> -1, days |-> 0,
   cache |-> FreshCache(0), commits |-> <<>>, idx |-> 0,
   commitData |-> <<>>, files |-> "none",
   processedCount |-> 0, skippedCount |-> 0,
   \* history of the run, read by the properties only
   loaded |-> FreshCache(0), fileAtStart |-> MissingFile,
   rowsAtStart |-> [r \in RowSet |-> 0],
   probe |-> NoList, primary |-> NoList, fallback |-> NoList,
   visited |-> <<>>, appended |-> <<>>, wrote |-> "none",
   nLoads |-> 0, nDetails |-> 0, nFiles |-> 0, nWrites |-> 0, nDelays |-> 0,
   nCleanups |-> 0, nSaves |-> 0, saved |-> FALSE, failed |-> FALSE,
   prev |-> NoPrev]

Init ==
  /\ file \in {MissingFile, CorruptFile}
  /\ rows = [r \in RowSet |-> 0]
  /\ now = 0
  /\ proc = [p \in Procs |-> IdleProc]
  /\ cin = <<>>
  /\ cout = <<>>
  /\ cdone = FALSE
  /\ argv = NoArgv

\* ------------------------------------------------------------ main (CLI)

\* Number.parseInt on a sequence of characters: an optional sign, then the
\* longest run of leading digits; NaN when there is none.
Digits == <<"0", "1", "2", "3", "4", "5", "6", "7", "8", "9">>
IsDigit(c) == \E d \in 1..10 : Digits[d] = c
DigitVal(c) == (CHOOSE d \in 1..10 : Digits[d] = c) - 1
NaN == [nan |-> TRUE, val |-> 0]
Num(n) == [nan |-> FALSE, val |-> n]

RECURSIVE LeadingDigits(_, _, _)
LeadingDigits(s, k, acc) ==
  IF k <= Len(s) /\ IsDigit(s[k])
    THEN LeadingDigits(s, k + 1, 10 * acc + DigitVal(s[k]))
    ELSE acc

parseInt(s) ==
  LET neg  == Len(s) > 0 /\ s[1] = "-"
      from == IF neg THEN 2 ELSE 1
  IN  IF from <= Len(s) /\ IsDigit(s[from])
        THEN Num((IF neg THEN -1 ELSE 1) * LeadingDigits(s, from, 0))
        ELSE NaN

\* The first positional argument: absent (the empty string is falsy), or text.
DaysArgs ==
  { <<>>, <<"a">>, <<"0">>, <<"-", "1">>, <<"7", "a">>,
    <<"3", "6", "5">>, <<"3", "6", "6">> }

\* The argument --clear-cache.
ClearFlag == <<"-", "-", "c", "l", "e", "a", "r", "-", "c", "a", "c", "h", "e">>

\* process.argv.slice(2): nothing, a first argument, the flag alone, or the
\* flag before or after a first argument.
CommandLines ==
  {<<>>, <<ClearFlag>>}
    \cup { <<a>> : a \in DaysArgs \ {<<>>} }
    \cup { <<a, ClearFlag>> : a \in DaysArgs \ {<<>>} }
    \cup { <<ClearFlag, a>> : a \in DaysArgs \ {<<>>} }

\* process.env: whether each of the five settings is there.
Environments ==
  [NOTION_TOKEN : BOOLEAN, GITHUB_TOKEN : BOOLEAN, NOTION_DATABASE_ID : BOOLEAN,
   GITHUB_OWNER : BOOLEAN, GITHUB_REPO : BOOLEAN]

\* The environments that name a database and a repository.
Configured ==
  { env \in Environments :
      env.NOTION_DATABASE_ID /\ env.GITHUB_OWNER /\ env.GITHUB_REPO }

\* const days = args[0] ? parseInt(args[0]) : 7
DaysOf(arg) == IF arg = <<>> THEN Num(7) ELSE parseInt(arg)

\* args[0], undefined and the empty string alike being falsy
FirstArg(args) == IF Len(args) = 0 THEN <<>> ELSE args[1]

\* isNaN(days) || days < 1 || days > 365
InvalidDays(d) == d.nan \/ d.val < 1 \/ d.val > 365

Exit(pr, code) == [pr EXCEPT !.pc = "done", !.exitCode = code]

\* main validating before it looks for the flag: an invalid first argument
\* or a missing token ends the invocation with 1 and the file is kept.
main_validatesFirst(p, args, env) ==
  /\ proc[p].pc \in {"idle", "done"}
  /\ now < MaxRuns
  /\ now' = now + 1
  /\ LET d == DaysOf(FirstArg(args)) IN
     IF InvalidDays(d) \/ ~env.NOTION_TOKEN \/ ~env.GITHUB_TOKEN
       THEN /\ file' = file
            /\ proc' = [proc EXCEPT ![p] = Exit(IdleProc, 1)]
       ELSE IF includes(args, ClearFlag)
              THEN /\ file' = IF file.kind # "missing" THEN MissingFile ELSE file
                   /\ proc' = [proc EXCEPT ![p] = Exit(IdleProc, 0)]
              ELSE /\ file' = file
                   /\ proc' = [proc EXCEPT ![p] =
                                   [IdleProc EXCEPT !.pc = "load", !.days = d.val]]
  /\ UNCHANGED <<rows, cin, cout, cdone>>

\* main asking for the database id as well as for the tokens.
main_checksDatabase(p, args, env) ==
  /\ proc[p].pc \in {"idle", "done"}
  /\ now < MaxRuns
  /\ now' = now + 1
  /\ LET d == DaysOf(FirstArg(args)) IN
     IF includes(args, ClearFlag)
       THEN /\ file' = IF file.kind # "missing" THEN MissingFile ELSE file
            /\ proc' = [proc EXCEPT ![p] = Exit(IdleProc, 0)]
       ELSE /\ file' = file
            /\ IF \/ InvalidDays(d)
                  \/ ~env.NOTION_TOKEN \/ ~env.GITHUB_TOKEN
                  \/ ~env.NOTION_DATABASE_ID
                 THEN proc' = [proc EXCEPT ![p] = Exit(IdleProc, 1)]
                 ELSE proc' = [proc EXCEPT ![p] =
                                 [IdleProc EXCEPT !.pc = "load", !.days = d.val]]
  /\ UNCHANGED <<rows, cin, cout, cdone>>

\* main on a command line and an environment: the clear-cache command, the
\* validation of the window and of the tokens, then the call of
\* syncRecentCommits.
main(p, args, env) ==
  /\ proc[p].pc \in {"idle", "done"}
  /\ now < MaxRuns
  /\ now' = now + 1
  /\ LET d == DaysOf(FirstArg(args)) IN
     IF includes(args, ClearFlag)
       THEN /\ file' = IF file.kind # "missing" THEN MissingFile ELSE file
            /\ proc' = [proc EXCEPT ![p] = Exit(IdleProc, 0)]
       ELSE /\ file' = file
            /\ IF InvalidDays(d) \/ ~env.NOTION_TOKEN \/ ~env.GITHUB_TOKEN
                 THEN proc' = [proc EXCEPT ![p] = Exit(IdleProc, 1)]
                 ELSE proc' = [proc EXCEPT ![p] =
                                 [IdleProc EXCEPT !.pc = "load", !.days = d.val]]
  /\ UNCHANGED <<rows, cin, cout, cdone>>

\* An invocation of the script, with any command line and with or without
\* the tokens.
Main(p) ==
  /\ \E args \in CommandLines, env \in Configured : main(p, args, env)
  /\ argv' = argv

\* A sync invocation right after a run (no argument, both tokens), the list,
\* the appended identifiers and the save of that run kept for the
\* properties that compare two runs.
MainAgain(p) ==
  /\ proc[p].pc = "done"
  /\ proc[p].nLoads > 0
  /\ now < MaxRuns
  /\ now' = now + 1
  /\ proc' = [proc EXCEPT ![p] =
       [IdleProc EXCEPT !.pc = "load", !.days = DaysOf(<<>>).val,
                        !.prev = [ran |-> TRUE,
                                  commits |-> proc[p].commits,
                                  loaded |-> proc[p].loaded.processedSHAs,
                                  appended |-> proc[p].appended,
                                  saved |-> proc[p].saved]]]
  /\ UNCHANGED <<file, rows, cin, cout, cdone, argv>>

\* An invocation of the script with any command line and any environment,
\* both kept for the properties of main.
MainRecorded(p) ==
  \E args \in CommandLines, env \in Environments :
    /\ main(p, args, env)
    /\ argv' = [args |-> args, file |-> file, env |-> env]

\* ------------------------------------------------------ syncRecentCommits

\* loadCache without its catch: JSON.parse of an unparseable file throws out
\* of syncRecentCommits (the call is before its try) and main exits with 1.
LoadCache_throws(p) ==
  /\ proc[p].pc = "load"
  /\ proc' = [proc EXCEPT ![p] =
       IF file.kind = "corrupt"
         THEN [Exit(@, 1) EXCEPT !.fileAtStart = file, !.rowsAtStart = rows]
         ELSE [@ EXCEPT !.pc = "probe",
                        !.nLoads = @ + 1,
                        !.cache = loadCache(file, now),
                        !.loaded = loadCache(file, now),
                        !.fileAtStart = file,
                        !.rowsAtStart = rows]]
  /\ UNCHANGED <<file, rows, now, cin, cout, cdone, argv>>

\* const cache = await loadCache()
LoadCache(p) ==
  /\ proc[p].pc = "load"
  /\ proc' = [proc EXCEPT ![p] =
       [@ EXCEPT !.pc = "probe",
                 !.nLoads = @ + 1,
                 !.cache = loadCache(file, now),
                 !.loaded = loadCache(file, now),
                 !.fileAtStart = file,
                 !.rowsAtStart = rows]]
  /\ UNCHANGED <<file, rows, now, cin, cout, cdone, argv>>

\* The unfiltered listCommits request: its answer is only logged; when it
\* throws, the catch of syncRecentCommits ends the run.
ProbeList(p) ==
  /\ proc[p].pc = "probe"
  /\ \E ok \in BOOLEAN :
       proc' = [proc EXCEPT ![p] =
         IF ok THEN [@ EXCEPT !.pc = "primary", !.probe = Answer(<<>>)]
               ELSE [Exit(@, 0) EXCEPT !.probe = Threw, !.failed = TRUE]]
  /\ UNCHANGED <<file, rows, now, cin, cout, cdone, argv>>

\* PrimaryList taking a failed request for an empty answer: the run goes on
\* to the 30-day request instead of ending.
PrimaryList_fallsBack(p, Lists) ==
  /\ proc[p].pc = "primary"
  /\ \/ proc' = [proc EXCEPT ![p] =
            [@ EXCEPT !.primary = Threw, !.failed = TRUE,
                      !.idx = 1, !.pc = "fallback"]]
     \/ \E resp \in Lists :
          proc' = [proc EXCEPT ![p] =
            [@ EXCEPT !.primary = Answer(resp),
                      !.commits = resp,
                      !.idx = 1,
                      !.pc = IF Len(resp) = 0 THEN "fallback" ELSE "loop"]]
  /\ UNCHANGED <<file, rows, now, cin, cout, cdone, argv>>

\* The unfiltered listCommits request, the commits it answers with kept for
\* the properties of the probe.
ProbeListKept(p, Lists) ==
  /\ proc[p].pc = "probe"
  /\ \/ proc' = [proc EXCEPT ![p] =
            [Exit(@, 0) EXCEPT !.probe = Threw, !.failed = TRUE]]
     \/ \E resp \in Lists :
          proc' = [proc EXCEPT ![p] =
            [@ EXCEPT !.pc = "primary", !.probe = Answer(resp)]]
  /\ UNCHANGED <<file, rows, now, cin, cout, cdone, argv>>

\* The date-filtered listCommits request.
PrimaryList(p, Lists) ==
  /\ proc[p].pc = "primary"
  /\ \/ proc' = [proc EXCEPT ![p] =
            [Exit(@, 0) EXCEPT !.primary = Threw, !.failed = TRUE]]
     \/ \E resp \in Lists :
          proc' = [proc EXCEPT ![p] =
            [@ EXCEPT !.primary = Answer(resp),
                      !.commits = resp,
                      !.idx = 1,
                      !.pc = IF Len(resp) = 0 THEN "fallback" ELSE "loop"]]
  /\ UNCHANGED <<file, rows, now, cin, cout, cdone, argv>>

\* FallbackList without commits.splice: the answer is logged and the empty
\* first list is kept.
FallbackList_noSplice(p, Lists) ==
  /\ proc[p].pc = "fallback"
  /\ \/ proc' = [proc EXCEPT ![p] =
            [Exit(@, 0) EXCEPT !.fallback = Threw, !.failed = TRUE]]
     \/ \E resp \in Lists :
          proc' = [proc EXCEPT ![p] =
            IF Len(resp) > 0
              THEN [@ EXCEPT !.fallback = Answer(resp), !.pc = "cleanup"]
              ELSE [Exit(@, 0) EXCEPT !.fallback = Answer(resp)]]
  /\ UNCHANGED <<file, rows, now, cin, cout, cdone, argv>>

\* FallbackList without the return: an empty answer falls through to the
\* loop over the empty list and to the save.
FallbackList_noReturn(p, Lists) ==
  /\ proc[p].pc = "fallback"
  /\ \/ proc' = [proc EXCEPT ![p] =
            [Exit(@, 0) EXCEPT !.fallback = Threw, !.failed = TRUE]]
     \/ \E resp \in Lists :
          proc' = [proc EXCEPT ![p] =
            [@ EXCEPT !.fallback = Answer(resp), !.commits = resp, !.idx = 1,
                      !.pc = IF Len(resp) > 0 THEN "loop" ELSE "cleanup"]]
  /\ UNCHANGED <<file, rows, now, cin, cout, cdone, argv>>

\* FallbackList falling back once more: when the 30-day list is empty too,
\* the commits the probe answered with are processed.
FallbackList_usesProbe(p, Lists) ==
  /\ proc[p].pc = "fallback"
  /\ \/ proc' = [proc EXCEPT ![p] =
            [Exit(@, 0) EXCEPT !.fallback = Threw, !.failed = TRUE]]
     \/ \E resp \in Lists :
          proc' = [proc EXCEPT ![p] =
            IF Len(resp) > 0
              THEN [@ EXCEPT !.fallback = Answer(resp),
                             !.commits = resp, !.idx = 1, !.pc = "loop"]
              ELSE IF Len(proc[p].probe.resp) > 0
                THEN [@ EXCEPT !.fallback = Answer(resp),
                               !.commits = proc[p].probe.resp,
                               !.idx = 1, !.pc = "loop"]
                ELSE [Exit(@, 0) EXCEPT !.fallback = Answer(resp)]]
  /\ UNCHANGED <<file, rows, now, cin, cout, cdone, argv>>

\* The 30-day listCommits request, made when the first list is empty; its
\* answer replaces the list (commits.splice), or the run returns.
FallbackList(p, Lists) ==
  /\ proc[p].pc = "fallback"
  /\ \/ proc' = [proc EXCEPT ![p] =
            [Exit(@, 0) EXCEPT !.fallback = Threw, !.failed = TRUE]]
     \/ \E resp \in Lists :
          proc' = [proc EXCEPT ![p] =
            IF Len(resp) > 0
              THEN [@ EXCEPT !.fallback = Answer(resp),
                             !.commits = resp, !.idx = 1, !.pc = "loop"]
              ELSE [Exit(@, 0) EXCEPT !.fallback = Answer(resp)]]
  /\ UNCHANGED <<file, rows, now, cin, cout, cdone, argv>>

\* The next iteration of the for-of loop, or the code after the loop.
NextIter(pr) ==
  [pr EXCEPT !.idx = pr.idx + 1,
             !.commitData = <<>>,
             !.files = "none",
             !.wrote = "none",
             !.pc = IF pr.idx + 1 > Len(pr.commits) THEN "cleanup" ELSE "loop"]

\* CheckCache falling through to the pause on a cache hit.
CheckCache_delayOnSkip(p) ==
  /\ proc[p].pc = "loop"
  /\ LET pr == [proc[p] EXCEPT !.visited = Append(@, proc[p].commits[proc[p].idx])] IN
       proc' = [proc EXCEPT ![p] =
         IF commitExistsInCache(pr.commits[pr.idx], pr.cache)
           THEN [pr EXCEPT !.skippedCount = @ + 1, !.pc = "delay"]
           ELSE [pr EXCEPT !.pc = "details"]]
  /\ UNCHANGED <<file, rows, now, cin, cout, cdone, argv>>

\* CheckCache with break for continue: a cached commit ends the loop.
CheckCache_breaks(p) ==
  /\ proc[p].pc = "loop"
  /\ LET pr == [proc[p] EXCEPT !.visited = Append(@, proc[p].commits[proc[p].idx])] IN
       proc' = [proc EXCEPT ![p] =
         IF commitExistsInCache(pr.commits[pr.idx], pr.cache)
           THEN [NextIter([pr EXCEPT !.skippedCount = @ + 1]) EXCEPT !.pc = "cleanup"]
           ELSE [pr EXCEPT !.pc = "details"]]
  /\ UNCHANGED <<file, rows, now, cin, cout, cdone, argv>>

\* CheckCache looking into the cache as it was loaded, not as the run has
\* extended it.
CheckCache_stale(p) ==
  /\ proc[p].pc = "loop"
  /\ LET pr == [proc[p] EXCEPT !.visited = Append(@, proc[p].commits[proc[p].idx])] IN
       proc' = [proc EXCEPT ![p] =
         IF commitExistsInCache(pr.commits[pr.idx], pr.loaded)
           THEN NextIter([pr EXCEPT !.skippedCount = @ + 1])
           ELSE [pr EXCEPT !.pc = "details"]]
  /\ UNCHANGED <<file, rows, now, cin, cout, cdone, argv>>

\* The cache test reading the file again: a commit saved by another run
\* since the load is skipped too.
CheckCache_rereads(p) ==
  /\ proc[p].pc = "loop"
  /\ LET pr == [proc[p] EXCEPT !.visited = Append(@, proc[p].commits[proc[p].idx])] IN
       proc' = [proc EXCEPT ![p] =
         IF \/ commitExistsInCache(pr.commits[pr.idx], pr.cache)
            \/ includes(file.processedSHAs, pr.commits[pr.idx])
           THEN NextIter([pr EXCEPT !.skippedCount = @ + 1])
           ELSE [pr EXCEPT !.pc = "details"]]
  /\ UNCHANGED <<file, rows, now, cin, cout, cdone, argv>>

\* if (commitExistsInCache(commit.sha, cache)) { skippedCount++; continue; }
CheckCache(p) ==
  /\ proc[p].pc = "loop"
  /\ LET pr == [proc[p] EXCEPT !.visited = Append(@, proc[p].commits[proc[p].idx])] IN
       proc' = [proc EXCEPT ![p] =
         IF commitExistsInCache(pr.commits[pr.idx], pr.cache)
           THEN NextIter([pr EXCEPT !.skippedCount = @ + 1])
           ELSE [pr EXCEPT !.pc = "details"]]
  /\ UNCHANGED <<file, rows, now, cin, cout, cdone, argv>>

\* getCommitDetails without its try/catch: the error reaches the catch of
\* syncRecentCommits and ends the run.
GetCommitDetails_throws(p) ==
  /\ proc[p].pc = "details"
  /\ LET pr == [proc[p] EXCEPT !.nDetails = @ + 1] IN
     \E ok \in BOOLEAN :
       proc' = [proc EXCEPT ![p] =
         IF ok THEN [pr EXCEPT !.commitData = CommitRecord(pr.commits[pr.idx]),
                               !.pc = "files"]
               ELSE [Exit(pr, 0) EXCEPT !.failed = TRUE]]
  /\ UNCHANGED <<file, rows, now, cin, cout, cdone, argv>>

\* The loop without the continue after a null: the failed fetch is followed
\* by the delay.
GetCommitDetails_delayOnNull(p) ==
  /\ proc[p].pc = "details"
  /\ LET pr == [proc[p] EXCEPT !.nDetails = @ + 1] IN
     \E ok \in BOOLEAN :
       proc' = [proc EXCEPT ![p] =
         IF ok THEN [pr EXCEPT !.commitData = CommitRecord(pr.commits[pr.idx]),
                               !.pc = "files"]
               ELSE [pr EXCEPT !.pc = "delay", !.failed = TRUE]]
  /\ UNCHANGED <<file, rows, now, cin, cout, cdone, argv>>

\* The loop marking a commit as processed when its details are null.
GetCommitDetails_recordsNull(p) ==
  /\ proc[p].pc = "details"
  /\ LET pr == [proc[p] EXCEPT !.nDetails = @ + 1] IN
     \E ok \in BOOLEAN :
       proc' = [proc EXCEPT ![p] =
         IF ok THEN [pr EXCEPT !.commitData = CommitRecord(pr.commits[pr.idx]),
                               !.pc = "files"]
               ELSE NextIter([pr EXCEPT
                      !.failed = TRUE,
                      !.cache.processedSHAs = Append(@, pr.commits[pr.idx])])]
  /\ UNCHANGED <<file, rows, now, cin, cout, cdone, argv>>

\* const commitData = await getCommitDetails(commit.sha);
\* if (!commitData) continue;
GetCommitDetails(p) ==
  /\ proc[p].pc = "details"
  /\ LET pr == [proc[p] EXCEPT !.nDetails = @ + 1] IN
     \E ok \in BOOLEAN :
       proc' = [proc EXCEPT ![p] =
         IF ok THEN [pr EXCEPT !.commitData = CommitRecord(pr.commits[pr.idx]),
                               !.pc = "files"]
               ELSE NextIter([pr EXCEPT !.failed = TRUE])]
  /\ UNCHANGED <<file, rows, now, cin, cout, cdone, argv>>

\* getCommitFiles without its try/catch: the error reaches the catch of
\* createNotionCommit, which returns false before any row is written.
GetCommitFiles_throws(p) ==
  /\ proc[p].pc = "files"
  /\ LET pr == [proc[p] EXCEPT !.nFiles = @ + 1] IN
     \E ok \in BOOLEAN :
       proc' = [proc EXCEPT ![p] =
         IF ok THEN [pr EXCEPT !.files = "listed", !.pc = "create"]
               ELSE [pr EXCEPT !.files = "error", !.pc = "delay", !.failed = TRUE]]
  /\ UNCHANGED <<file, rows, now, cin, cout, cdone, argv>>

\* createNotionCommit, first await: getCommitFiles(commitData.sha) returns
\* the file names, or [] when the request throws.
GetCommitFiles(p) ==
  /\ proc[p].pc = "files"
  /\ LET pr == [proc[p] EXCEPT !.nFiles = @ + 1, !.pc = "create"] IN
     \E ok \in BOOLEAN :
       proc' = [proc EXCEPT ![p] =
         IF ok THEN [pr EXCEPT !.files = "listed"]
               ELSE [pr EXCEPT !.files = "error", !.failed = TRUE]]
  /\ UNCHANGED <<file, rows, now, cin, cout, cdone, argv>>

\* if (success) { processedCount++; cache.processedSHAs.push(commit.sha);
\*                cache.totalProcessed++; }
Recorded_shortSha(pr) ==
  [pr EXCEPT !.processedCount = @ + 1,
             !.cache.processedSHAs = Append(@, pr.commitData.sha),
             !.cache.totalProcessed = @ + 1,
             !.appended = Append(@, pr.commitData.sha),
             !.wrote = "ok"]

Recorded(pr) ==
  [pr EXCEPT !.processedCount = @ + 1,
             !.cache.processedSHAs = Append(@, pr.commits[pr.idx]),
             !.cache.totalProcessed = @ + 1,
             !.appended = Append(@, pr.commits[pr.idx]),
             !.wrote = "ok"]

\* The caller doing its bookkeeping whatever createNotionCommit returned.
PagesCreate_recordsFailure(p) ==
  /\ proc[p].pc = "create"
  /\ LET pr == [proc[p] EXCEPT !.nWrites = @ + 1, !.pc = "delay"] IN
     \/ /\ rows' = [rows EXCEPT ![pr.commitData] = @ + 1]
        /\ proc' = [proc EXCEPT ![p] = Recorded(pr)]
     \/ /\ rows' = rows
        /\ proc' = [proc EXCEPT ![p] =
             [Recorded(pr) EXCEPT !.wrote = "failed", !.failed = TRUE]]
  /\ UNCHANGED <<file, now, cin, cout, cdone, argv>>

\* createNotionCommit without its catch: a failing notion.pages.create
\* reaches the catch of syncRecentCommits, which ends the run.
PagesCreate_throws(p) ==
  /\ proc[p].pc = "create"
  /\ LET pr == [proc[p] EXCEPT !.nWrites = @ + 1, !.pc = "delay"] IN
     \/ /\ rows' = [rows EXCEPT ![pr.commitData] = @ + 1]
        /\ proc' = [proc EXCEPT ![p] = Recorded(pr)]
     \/ /\ rows' = rows
        /\ proc' = [proc EXCEPT ![p] =
             [Exit(pr, 0) EXCEPT !.wrote = "failed", !.failed = TRUE]]
  /\ UNCHANGED <<file, now, cin, cout, cdone, argv>>

\* createNotionCommit, second await: notion.pages.create makes the row and
\* true is returned, or it throws and false is returned; then the caller's
\* bookkeeping.
PagesCreate(p) ==
  /\ proc[p].pc = "create"
  /\ LET pr == [proc[p] EXCEPT !.nWrites = @ + 1, !.pc = "delay"] IN
     \/ /\ rows' = [rows EXCEPT ![pr.commitData] = @ + 1]
        /\ proc' = [proc EXCEPT ![p] = Recorded(pr)]
     \/ /\ rows' = rows
        /\ proc' = [proc EXCEPT ![p] = [pr EXCEPT !.wrote = "failed", !.failed = TRUE]]
  /\ UNCHANGED <<file, now, cin, cout, cdone, argv>>

\* The loop saving the cache at the end of every iteration that wrote.
RateLimitDelay_saves(p) ==
  /\ proc[p].pc = "delay"
  /\ proc' = [proc EXCEPT ![p] = NextIter([@ EXCEPT !.nDelays = @ + 1])]
  /\ file' = JsonFile(proc[p].cache)
  /\ UNCHANGED <<rows, now, cin, cout, cdone, argv>>

\* await new Promise(resolve => setTimeout(resolve, 1000))
RateLimitDelay(p) ==
  /\ proc[p].pc = "delay"
  /\ proc' = [proc EXCEPT ![p] = NextIter([@ EXCEPT !.nDelays = @ + 1])]
  /\ UNCHANGED <<file, rows, now, cin, cout, cdone, argv>>

\* The run without the trim: cleanupCache is not applied before the save.
Cleanup_noTrim(p) ==
  /\ proc[p].pc = "cleanup"
  /\ proc' = [proc EXCEPT ![p] = [@ EXCEPT !.nCleanups = @ + 1, !.pc = "stamp"]]
  /\ UNCHANGED <<file, rows, now, cin, cout, cdone, argv>>

\* cleanupCache(cache)
Cleanup(p) ==
  /\ proc[p].pc = "cleanup"
  /\ proc' = [proc EXCEPT ![p] =
       [@ EXCEPT !.cache.processedSHAs = cleanupCache(@),
                 !.nCleanups = @ + 1,
                 !.pc = "stamp"]]
  /\ UNCHANGED <<file, rows, now, cin, cout, cdone, argv>>

\* cache.lastSync = new Date().toISOString()
StampLastSync(p) ==
  /\ proc[p].pc = "stamp"
  /\ proc' = [proc EXCEPT ![p] = [@ EXCEPT !.cache.lastSync = now, !.pc = "save"]]
  /\ UNCHANGED <<file, rows, now, cin, cout, cdone, argv>>

\* saveCache taking a failed write as fatal: the process exits with 1.
SaveCache_fatal(p) ==
  /\ proc[p].pc = "save"
  /\ \/ /\ file' = JsonFile(proc[p].cache)
        /\ proc' = [proc EXCEPT ![p] =
             [Exit(@, 0) EXCEPT !.nSaves = @ + 1, !.saved = TRUE]]
     \/ /\ file' = file
        /\ proc' = [proc EXCEPT ![p] =
             [Exit(@, 1) EXCEPT !.nSaves = @ + 1, !.failed = TRUE]]
  /\ UNCHANGED <<rows, now, cin, cout, cdone, argv>>

\* await saveCache(cache): the file is rewritten, or writeFileSync throws
\* and the error is only logged.
SaveCache(p) ==
  /\ proc[p].pc = "save"
  /\ \/ /\ file' = JsonFile(proc[p].cache)
        /\ proc' = [proc EXCEPT ![p] =
             [Exit(@, 0) EXCEPT !.nSaves = @ + 1, !.saved = TRUE]]
     \/ /\ file' = file
        /\ proc' = [proc EXCEPT ![p] =
             [Exit(@, 0) EXCEPT !.nSaves = @ + 1, !.failed = TRUE]]
  /\ UNCHANGED <<rows, now, cin, cout, cdone, argv>>

\* syncRecentCommits, one step of it other than the probe.
SyncOther(p, Lists) ==
  \/ LoadCache(p)
  \/ PrimaryList(p, Lists)
  \/ FallbackList(p, Lists)
  \/ CheckCache(p)
  \/ GetCommitDetails(p)
  \/ GetCommitFiles(p)
  \/ PagesCreate(p)
  \/ RateLimitDelay(p)
  \/ Cleanup(p)
  \/ StampLastSync(p)
  \/ SaveCache(p)

\* syncRecentCommits, one step of it.
Sync(p, Lists) ==
  \/ ProbeList(p)
  \/ SyncOther(p, Lists)

\* Invocations one after the other: every run ends before the next starts.
Next ==
  \/ Main(1)
  \/ Sync(1, CommitLists)

Spec == Init /\ [][Next]_vars

\* One invocation, over the longer lists.
NextRun ==
  \/ now = 0 /\ Main(1)
  \/ Sync(1, BatchLists)

SpecRun == Init /\ [][NextRun]_vars

\* One invocation whose run is never left waiting: every awaited call
\* settles, and the continuation after it is run.
SpecRunFair == SpecRun /\ WF_vars(Sync(1, BatchLists))

\* The lists of at most MaxShort commits.
ShortLists == SeqUpTo(SHAS, MaxShort)

\* One invocation over the shortest lists, the answer of the probe kept.
NextProbe ==
  \/ now = 0 /\ Main(1)
  \/ ProbeListKept(1, ShortLists)
  \/ SyncOther(1, ShortLists)

SpecProbe == Init /\ [][NextProbe]_vars

\* Invocations one after the other, over lists that may repeat an
\* identifier.
RepeatLists == SeqUpTo({ <<"a", "1">>, <<"b", "1">> }, MaxRepeat)

NextRepeat ==
  \/ Main(1)
  \/ Sync(1, RepeatLists)

SpecRepeat == Init /\ [][NextRepeat]_vars

\* A first invocation and then sync invocations one after the other, each
\* knowing the run before it, over the same lists as SpecRepeat.
NextAgain ==
  \/ now = 0 /\ Main(1)
  \/ MainAgain(1)
  \/ Sync(1, RepeatLists)

SpecAgain == Init /\ [][NextAgain]_vars

\* Two invocations of the script that may overlap in time: each process is
\* started once, with no argument, and the steps of the two runs interleave
\* at their awaits; the file and the rows are shared, the cache in memory
\* is each run's own.
OverlapLists ==
  { s \in SeqUpTo({ <<"a", "1">>, <<"b", "1">> }, MaxOverlap) : NoDup(s) }

MainOnce(p) ==
  /\ proc[p].pc = "idle"
  /\ \E env \in Configured : main(p, <<>>, env)
  /\ argv' = argv

NextOverlap ==
  \E p \in Procs :
    \/ MainOnce(p)
    \/ Sync(p, OverlapLists)

SpecOverlap == Init /\ [][NextOverlap]_vars

\* main as a function of its command line, its environment and the cache
\* file it finds: no file, an unparseable one, or one saved by an earlier
\* run that recorded a commit. One invocation over the shortest lists, and
\* a second invocation after a clear.
SavedFiles ==
  { JsonFile([processedSHAs |-> <<sha>>, lastSync |-> 0, totalProcessed |-> 1]) :
      sha \in SHAS }

InitMain ==
  /\ file \in {MissingFile, CorruptFile} \cup SavedFiles
  /\ rows = [r \in RowSet |-> 0]
  /\ now = 0
  /\ proc = [p \in Procs |-> IdleProc]
  /\ cin = <<>>
  /\ cout = <<>>
  /\ cdone = FALSE
  /\ argv = NoArgv

NextMain ==
  \/ now = 0 /\ MainRecorded(1)
  \/ now = 1 /\ includes(argv.args, ClearFlag) /\ MainRecorded(1)
  \/ Sync(1, ShortLists)

SpecMain == InitMain /\ [][NextMain]_vars

\* cleanupCache as a function of its input: any sequence of identifiers of
\* length at most MaxLen, then one application.
InitCleanup ==
  /\ file = MissingFile
  /\ rows = [r \in RowSet |-> 0]
  /\ now = 0
  /\ proc = [p \in Procs |-> IdleProc]
  /\ cin \in SeqUpTo(SHAS, MaxLen)
  /\ cout = <<>>
  /\ cdone = FALSE
  /\ argv = NoArgv

ApplyCleanup ==
  /\ ~cdone
  /\ cout' = cleanupCache(cin)
  /\ cdone' = TRUE
  /\ UNCHANGED <<file, rows, now, proc, cin, argv>>

SpecCleanup == InitCleanup /\ [][ApplyCleanup]_vars

\* --------------------------------------------------------- classification

\* Text is a sequence of characters.
Lower == <<"a", "b", "c", "d", "e", "f", "g", "h", "i", "j", "k", "l", "m",
           "n", "o", "p", "q", "r", "s", "t", "u", "v", "w", "x", "y", "z">>
Upper == <<"A", "B", "C", "D", "E", "F", "G", "H", "I", "J", "K", "L", "M",
           "N", "O", "P", "Q", "R", "S", "T", "U", "V", "W", "X", "Y", "Z">>

\* String.prototype.toLowerCase
toLowerCase(s) ==
  [k \in 1..Len(s) |->
     IF \E n \in 1..26 : Upper[n] = s[k]
       THEN Lower[CHOOSE n \in 1..26 : Upper[n] = s[k]]
       ELSE s[k]]

\* String.prototype.includes: t occurs in s as a run of consecutive characters.
strIncludes(s, t) ==
  \E k \in 0..(Len(s) - Len(t)) : SubSeq(s, k + 1, k + Len(t)) = t

\* Array.prototype.join
RECURSIVE join(_, _)
join(parts, sep) ==
  IF Len(parts) = 0 THEN <<>>
  ELSE IF Len(parts) = 1 THEN parts[1]
  ELSE parts[1] \o sep \o join(Tail(parts), sep)

\* The texts detectFeatureArea looks for.
Keyword ==
  [chat |-> <<"c", "h", "a", "t">>,
   chatInterface |-> <<"c", "h", "a", "t", "-", "i", "n", "t", "e", "r", "f", "a", "c", "e">>,
   chatTsx |-> <<"c", "h", "a", "t", ".", "t", "s", "x">>,
   bigquery |-> <<"b", "i", "g", "q", "u", "e", "r", "y">>,
   analytics |-> <<"a", "n", "a", "l", "y", "t", "i", "c", "s">>,
   claude |-> <<"c", "l", "a", "u", "d", "e">>,
   ai |-> <<"a", "i">>,
   anthropic |-> <<"a", "n", "t", "h", "r", "o", "p", "i", "c">>,
   supabase |-> <<"s", "u", "p", "a", "b", "a", "s", "e">>,
   database |-> <<"d", "a", "t", "a", "b", "a", "s", "e">>,
   auth |-> <<"a", "u", "t", "h">>,
   ui |-> <<"u", "i">>,
   style |-> <<"s", "t", "y", "l", "e">>,
   css |-> <<"c", "s", "s">>,
   dotCss |-> <<".", "c", "s", "s">>,
   test |-> <<"t", "e", "s", "t">>,
   dotSpec |-> <<".", "s", "p", "e", "c", ".">>,
   deploy |-> <<"d", "e", "p", "l", "o", "y">>,
   build |-> <<"b", "u", "i", "l", "d">>,
   vercel |-> <<"v", "e", "r", "c", "e", "l">>,
   dockerfile |-> <<"d", "o", "c", "k", "e", "r", "f", "i", "l", "e">>,
   fix |-> <<"f", "i", "x">>,
   bug |-> <<"b", "u", "g">>]

\* The conditions of detectFeatureArea, in the order of its if statements,
\* on the lower-cased message and the lower-cased joined file names.
ChatRule(m, f) ==
  \/ strIncludes(m, Keyword.chat)
  \/ strIncludes(f, Keyword.chatInterface)
  \/ strIncludes(f, Keyword.chatTsx)

BigQueryRule(m, f) ==
  \/ strIncludes(m, Keyword.bigquery)
  \/ strIncludes(m, Keyword.analytics)
  \/ strIncludes(f, Keyword.bigquery)

ClaudeRule(m, f) ==
  \/ strIncludes(m, Keyword.claude)
  \/ strIncludes(m, Keyword.ai)
  \/ strIncludes(m, Keyword.anthropic)

DatabaseRule(m, f) ==
  \/ strIncludes(m, Keyword.supabase)
  \/ strIncludes(m, Keyword.database)
  \/ strIncludes(m, Keyword.auth)

UiRule(m, f) ==
  \/ strIncludes(m, Keyword.ui)
  \/ strIncludes(m, Keyword.style)
  \/ strIncludes(m, Keyword.css)
  \/ strIncludes(f, Keyword.dotCss)

TestingRule(m, f) ==
  \/ strIncludes(m, Keyword.test)
  \/ strIncludes(f, Keyword.test)
  \/ strIncludes(f, Keyword.dotSpec)

DeploymentRule(m, f) ==
  \/ strIncludes(m, Keyword.deploy)
  \/ strIncludes(m, Keyword.build)
  \/ strIncludes(f, Keyword.vercel)
  \/ strIncludes(f, Keyword.dockerfile)

BugFixRule(m, f) ==
  \/ strIncludes(m, Keyword.fix)
  \/ strIncludes(m, Keyword.bug)

\* detectFeatureArea with the bug-fix test moved to the front.
detectFeatureArea_bugFixFirst(message, files) ==
  LET lowerMessage == toLowerCase(message)
      fileStr == toLowerCase(join(files, <<" ">>))
  IN  IF BugFixRule(lowerMessage, fileStr) THEN "Bug Fix"
      ELSE IF ChatRule(lowerMessage, fileStr) THEN "Chat Interface"
      ELSE IF BigQueryRule(lowerMessage, fileStr) THEN "BigQuery Integration"
      ELSE IF ClaudeRule(lowerMessage, fileStr) THEN "AI/Claude API"
      ELSE IF DatabaseRule(lowerMessage, fileStr) THEN "Database/Supabase"
      ELSE IF UiRule(lowerMessage, fileStr) THEN "UI/UX"
      ELSE IF TestingRule(lowerMessage, fileStr) THEN "Testing"
      ELSE IF DeploymentRule(lowerMessage, fileStr) THEN "Deployment"
      ELSE "Chat Interface"

\* detectFeatureArea(message, files)
detectFeatureArea(message, files) ==
  LET lowerMessage == toLowerCase(message)
      fileStr == toLowerCase(join(files, <<" ">>))
  IN  IF ChatRule(lowerMessage, fileStr) THEN "Chat Interface"
      ELSE IF BigQueryRule(lowerMessage, fileStr) THEN "BigQuery Integration"
      ELSE IF ClaudeRule(lowerMessage, fileStr) THEN "AI/Claude API"
      ELSE IF DatabaseRule(lowerMessage, fileStr) THEN "Database/Supabase"
      ELSE IF UiRule(lowerMessage, fileStr) THEN "UI/UX"
      ELSE IF TestingRule(lowerMessage, fileStr) THEN "Testing"
      ELSE IF DeploymentRule(lowerMessage, fileStr) THEN "Deployment"
      ELSE IF BugFixRule(lowerMessage, fileStr) THEN "Bug Fix"
      ELSE "Chat Interface"

\* The commit messages of SpecFeature: up to MaxWords of these words, with a
\* space between them.
Words ==
  { <<"f", "i", "x">>,
    <<"c", "h", "a", "t">>,
    <<"b", "u", "g">>,
    <<"b", "u", "i", "l", "d">>,
    <<"d", "e", "p", "l", "o", "y">>,
    <<"T", "e", "s", "t">>,
    <<"a", "u", "t", "h">>,
    <<"c", "l", "a", "u", "d", "e">>,
    <<"a", "n", "a", "l", "y", "t", "i", "c", "s">>,
    <<"p", "i", "p", "e", "l", "i", "n", "e">> }

Messages == { join(ws, <<" ">>) : ws \in SeqUpTo(Words, MaxWords) }

\* The file lists of SpecFeature.
FileLists ==
  { <<>>,
    <<<<"s", "r", "c", "/", "C", "h", "a", "t", ".", "t", "s", "x">>>>,
    <<<<"a", "p", "p", ".", "c", "s", "s">>>>,
    <<<<"a", ".", "s", "p", "e", "c", ".", "t", "s">>>>,
    <<<<"D", "o", "c", "k", "e", "r", "f", "i", "l", "e">>>>,
    <<<<"b", "i", "g", "q", "u", "e", "r", "y", ".", "t", "s">>, <<"v", "e", "r", "c", "e", "l", ".", "j", "s", "o", "n">>>> }

\* detectFeatureArea as a function of its input: any message and any file
\* list, then one application.
InitFeature ==
  /\ file = MissingFile
  /\ rows = [r \in RowSet |-> 0]
  /\ now = 0
  /\ proc = [p \in Procs |-> IdleProc]
  /\ cin \in [message : Messages, files : FileLists]
  /\ cout = <<>>
  /\ cdone = FALSE
  /\ argv = NoArgv

ApplyFeature ==
  /\ ~cdone
  /\ cout' = detectFeatureArea(cin.message, cin.files)
  /\ cdone' = TRUE
  /\ UNCHANGED <<file, rows, now, proc, cin, argv>>

SpecFeature == InitFeature /\ [][ApplyFeature]_vars

\* The texts detectImpactLevel looks for.
ImpactKeyword ==
  [feat |-> <<"f", "e", "a", "t", ":">>,
   feature |-> <<"f", "e", "a", "t", "u", "r", "e", ":">>,
   fix |-> <<"f", "i", "x", ":">>,
   bug |-> <<"b", "u", "g">>,
   refactor |-> <<"r", "e", "f", "a", "c", "t", "o", "r", ":">>,
   cleanup |-> <<"c", "l", "e", "a", "n", "u", "p">>,
   docs |-> <<"d", "o", "c", "s", ":">>,
   readme |-> <<"r", "e", "a", "d", "m", "e">>]

\* The conditions of detectImpactLevel, in the order of its if statements,
\* on the lower-cased message and the sum of additions and deletions.
MajorRule(m, totalChanges) ==
  \/ strIncludes(m, ImpactKeyword.feat)
  \/ strIncludes(m, ImpactKeyword.feature)
  \/ totalChanges > 200

FixRule(m) ==
  \/ strIncludes(m, ImpactKeyword.fix)
  \/ strIncludes(m, ImpactKeyword.bug)

RefactorRule(m) ==
  \/ strIncludes(m, ImpactKeyword.refactor)
  \/ strIncludes(m, ImpactKeyword.cleanup)

DocsRule(m) ==
  \/ strIncludes(m, ImpactKeyword.docs)
  \/ strIncludes(m, ImpactKeyword.readme)

\* detectImpactLevel with the size test after the tests of the message.
detectImpactLevel_sizeLast(message, additions, deletions) ==
  LET lowerMessage == toLowerCase(message)
      totalChanges == additions + deletions
  IN  IF MajorRule(lowerMessage, 0) THEN "Major Feature"
      ELSE IF FixRule(lowerMessage) THEN "Bug Fix"
      ELSE IF RefactorRule(lowerMessage) THEN "Refactor"
      ELSE IF DocsRule(lowerMessage) THEN "Documentation"
      ELSE IF totalChanges > 200 THEN "Major Feature"
      ELSE "Minor Feature"

\* detectImpactLevel(message, additions, deletions)
detectImpactLevel(message, additions, deletions) ==
  LET lowerMessage == toLowerCase(message)
      totalChanges == additions + deletions
  IN  IF MajorRule(lowerMessage, totalChanges) THEN "Major Feature"
      ELSE IF FixRule(lowerMessage) THEN "Bug Fix"
      ELSE IF RefactorRule(lowerMessage) THEN "Refactor"
      ELSE IF DocsRule(lowerMessage) THEN "Documentation"
      ELSE IF totalChanges > 50 THEN "Minor Feature"
      ELSE "Minor Feature"

\* The commit messages of SpecImpact: up to MaxImpactWords of these words
\* and phrases, with a space between them.
ImpactWords ==
  { <<"f", "e", "a", "t", ":">>,
    <<"F", "e", "a", "t", "u", "r", "e", ":">>,
    <<"f", "i", "x", ":">>,
    <<"d", "e", "b", "u", "g">>,
    <<"r", "e", "f", "a", "c", "t", "o", "r", ":">>,
    <<"c", "l", "e", "a", "n", "u", "p">>,
    <<"d", "o", "c", "s", ":">>,
    <<"R", "E", "A", "D", "M", "E">>,
    <<"a", "d", "d", " ", "w", "i", "d", "g", "e", "t">>,
    <<"u", "p", "d", "a", "t", "e", " ", "c", "o", "p", "y">>,
    <<"s", "m", "a", "l", "l", " ", "t", "w", "e", "a", "k">> }

ImpactMessages ==
  { join(ws, <<" ">>) : ws \in SeqUpTo(ImpactWords, MaxImpactWords) }

\* The line counts of SpecImpact: sums below, at and above 50 and 200.
Additions == {0, 5, 10, 50, 60, 150, 201}
Deletions == {0, 2, 5, 50}

\* detectImpactLevel as a function of its input: any message and any line
\* counts, then one application.
InitImpact ==
  /\ file = MissingFile
  /\ rows = [r \in RowSet |-> 0]
  /\ now = 0
  /\ proc = [p \in Procs |-> IdleProc]
  /\ cin \in [message : ImpactMessages, additions : Additions, deletions : Deletions]
  /\ cout = <<>>
  /\ cdone = FALSE
  /\ argv = NoArgv

ApplyImpact ==
  /\ ~cdone
  /\ cout' = detectImpactLevel(cin.message, cin.additions, cin.deletions)
  /\ cdone' = TRUE
  /\ UNCHANGED <<file, rows, now, proc, cin, argv>>

SpecImpact == InitImpact /\ [][ApplyImpact]_vars

\* ------------------------------------------------------------ properties

\* x occurs in the sequence s.
Has(s, x) == x \in { s[k] : k \in 1..Len(s) }

Min(a, b) == IF a < b THEN a ELSE b

\* t is the last Min(Len(s), n) entries of s, in the order of s.
IsLastOf(t, s, n) ==
  /\ Len(t) = Min(Len(s), n)
  /\ \A k \in 1..Len(t) : t[k] = s[Len(s) - Len(t) + k]

\* The positions of a run after its processing loop.
AfterLoop == {"cleanup", "stamp", "save"}

\* Process p has taken the step.
Moved(p) == proc'[p] # proc[p]

\* C1: a commit whose identifier is in processedSHAs when its iteration
\* starts is skipped: the iteration makes no detail fetch, no file-list
\* fetch and no row write, skippedCount grows by exactly one, and the loop
\* moves to the next commit.
C1_CachedCommitSkipped ==
  [][\A p \in Procs :
       ( /\ proc[p].pc = "loop"
         /\ Has(proc[p].cache.processedSHAs, proc[p].commits[proc[p].idx])
         /\ Moved(p) )
       => /\ proc'[p].skippedCount = proc[p].skippedCount + 1
          /\ proc'[p].nDetails = proc[p].nDetails
          /\ proc'[p].nFiles = proc[p].nFiles
          /\ proc'[p].nWrites = proc[p].nWrites
          /\ proc'[p].processedCount = proc[p].processedCount
          /\ proc'[p].cache = proc[p].cache
          /\ rows' = rows
          /\ proc'[p].idx = proc[p].idx + 1
          /\ proc'[p].pc \in {"loop", "cleanup"}]_vars

\* C1 witness: a run that loaded a non-empty cache has skipped a commit
\* without a single detail fetch.
C1_Witness ==
  /\ proc[1].pc = "done"
  /\ Len(proc[1].loaded.processedSHAs) > 0
  /\ proc[1].skippedCount >= 1
  /\ proc[1].nDetails = 0

\* C2: over any sequence of runs, no commit identifier ever has more than
\* one row in the destination.
C2_AtMostOneRowPerCommit == \A r \in RowSet : rows[r] <= 1

\* C3: a run that starts with an empty or missing cache creates no row for
\* a commit that had a row in the destination when the run started.
C3_NoRowForCommitInDestination ==
  \A p \in Procs : \A r \in RowSet :
    ( /\ proc[p].loaded.processedSHAs = <<>>
      /\ proc[p].rowsAtStart[r] >= 1 )
    => rows[r] = proc[p].rowsAtStart[r]

\* C4: cleanupCache returns at most MAX_CACHE_SIZE entries, exactly the last
\* MAX_CACHE_SIZE of its input in their order, and the input itself when it
\* is no longer than MAX_CACHE_SIZE.
C4_CleanupKeepsNewest ==
  cdone =>
    /\ Len(cout) <= MAX_CACHE_SIZE
    /\ IsLastOf(cout, cin, MAX_CACHE_SIZE)
    /\ (Len(cin) <= MAX_CACHE_SIZE => cout = cin)

\* C4 witness: an input longer than MAX_CACHE_SIZE, whose first and last
\* entries differ, has been trimmed.
C4_Witness ==
  /\ cdone
  /\ Len(cin) > MAX_CACHE_SIZE + 1
  /\ cin[1] # cin[Len(cin)]
  /\ cout # cin

\* C5: the cache file a sync run writes holds at most MAX_CACHE_SIZE
\* identifiers, and they are the newest of the loaded identifiers followed
\* by those the run appended: the oldest by insertion are the ones dropped.
C5_SavedCacheBounded ==
  /\ file.kind = "json" => Len(file.processedSHAs) <= MAX_CACHE_SIZE
  /\ \A p \in Procs :
       proc[p].saved =>
         /\ file.kind = "json"
         /\ IsLastOf(file.processedSHAs,
                     proc[p].loaded.processedSHAs \o proc[p].appended,
                     MAX_CACHE_SIZE)

\* C5 witness: a run that loaded identifiers and appended more than the
\* cache can hold has saved the file.
C5_Witness ==
  /\ proc[1].saved
  /\ Len(proc[1].loaded.processedSHAs) > 0
  /\ Len(proc[1].loaded.processedSHAs \o proc[1].appended) > MAX_CACHE_SIZE

\* C6: when the first list is empty, the 30-day list holds n commits none
\* of which is cached, and no fetch or write fails, the run makes n detail
\* fetches and n row writes, counts n processed and none skipped, and the
\* cache grows by those n identifiers in the order of the list.
C6_FallbackProcessesAll ==
  \A p \in Procs :
    LET pr == proc[p]
        n  == Len(pr.fallback.resp)
    IN  ( /\ pr.primary.ok /\ pr.primary.resp = <<>>
          /\ pr.fallback.ok /\ n > 0
          /\ NoDup(pr.fallback.resp)
          /\ \A k \in 1..n : ~Has(pr.loaded.processedSHAs, pr.fallback.resp[k])
          /\ ~pr.failed
          /\ pr.pc \in AfterLoop \cup {"done"} )
        => /\ pr.nDetails = n
           /\ pr.nWrites = n
           /\ pr.processedCount = n
           /\ pr.skippedCount = 0
           /\ pr.appended = pr.fallback.resp
           /\ pr.cache.totalProcessed = pr.loaded.totalProcessed + n
           /\ pr.pc = "cleanup" =>
                pr.cache.processedSHAs = pr.loaded.processedSHAs \o pr.fallback.resp
           /\ \A k \in 1..n : rows[CommitRecord(pr.fallback.resp[k])] >= 1

\* C6 witness: the case of three commits from the 30-day list, all written.
C6_Witness ==
  /\ proc[1].pc = "done"
  /\ proc[1].primary.ok /\ proc[1].primary.resp = <<>>
  /\ Len(proc[1].fallback.resp) = 3
  /\ ~proc[1].failed
  /\ proc[1].processedCount = 3

\* C7 as claimed: after the loop, a run that made n >= 1 row writes has
\* paused n - 1 times.
C7_DelaysOnlyBetweenWrites ==
  \A p \in Procs :
    (proc[p].pc \in AfterLoop \cup {"done"} /\ proc[p].nWrites >= 1)
    => proc[p].nDelays = proc[p].nWrites - 1

\* C7 amended: the delay follows every row write, the last one included,
\* and nothing else: n delays for n writes, the n-th write being followed
\* by the n-th delay, and none before the first write.
C7_DelayAfterEachWrite ==
  \A p \in Procs :
    proc[p].nDelays = proc[p].nWrites - (IF proc[p].pc = "delay" THEN 1 ELSE 0)

\* C7 witness: a finished run with three row writes and three delays.
C7_Witness ==
  /\ proc[1].pc = "done"
  /\ proc[1].nWrites = 3
  /\ proc[1].nDelays = 3

\* C8: the 30-day request is made exactly when the first request answered
\* with no commit; a non-empty first list is the list processed, a
\* non-empty 30-day list is the list processed, commit by commit in order;
\* and when both are empty the run ends normally with no detail fetch, no
\* row write and no save, the cache file being what it was.
C8_FallbackRule ==
  \A p \in Procs :
    LET pr == proc[p] IN
    /\ pr.fallback.asked => (pr.primary.ok /\ pr.primary.resp = <<>>)
    /\ (pr.primary.ok /\ pr.primary.resp = <<>>)
         => (pr.fallback.asked \/ pr.pc = "fallback")
    /\ (pr.primary.ok /\ pr.primary.resp # <<>>) => pr.commits = pr.primary.resp
    /\ (pr.fallback.ok /\ pr.fallback.resp # <<>>) => pr.commits = pr.fallback.resp
    /\ pr.nCleanups >= 1 =>
         /\ pr.visited = pr.commits
         /\ pr.commits # <<>>
         /\ pr.commits \in {pr.primary.resp, pr.fallback.resp}
    /\ (pr.fallback.ok /\ pr.fallback.resp = <<>>) =>
         /\ pr.pc = "done" /\ pr.exitCode = 0
         /\ pr.nDetails = 0 /\ pr.nFiles = 0 /\ pr.nWrites = 0
         /\ pr.nCleanups = 0 /\ pr.nSaves = 0
         /\ file = pr.fileAtStart
         /\ rows = pr.rowsAtStart

\* C8 witness: both lists were empty, in a run that had loaded a saved
\* cache file.
C8_Witness ==
  /\ proc[1].primary.ok /\ proc[1].primary.resp = <<>>
  /\ proc[1].fallback.ok /\ proc[1].fallback.resp = <<>>
  /\ proc[1].pc = "done"
  /\ proc[1].fileAtStart.kind = "json"

\* C9 as claimed: a commit whose file-list fetch failed gets no row and its
\* identifier is not appended to the cache.
C9_FilesErrorSkipsCommit ==
  \A p \in Procs :
    (proc[p].files = "error" /\ proc[p].pc = "delay") =>
      /\ proc[p].wrote # "ok"
      /\ ~Has(proc[p].appended, proc[p].commits[proc[p].idx])

\* C9 amended: a failed file-list fetch does not skip the commit: the row
\* write is attempted all the same, and when it succeeds the row exists,
\* the commit is counted and its identifier is the last of processedSHAs;
\* either way the loop goes on to the delay and the next commit.
C9_FilesErrorStillWrites ==
  \A p \in Procs :
    LET pr == proc[p] IN
    pr.files = "error" =>
      \/ pr.pc = "create" /\ pr.wrote = "none"
      \/ /\ pr.pc = "delay"
         /\ pr.wrote \in {"ok", "failed"}
         /\ pr.wrote = "ok" =>
              /\ rows[CommitRecord(pr.commits[pr.idx])] >= 1
              /\ pr.cache.processedSHAs # <<>>
              /\ pr.cache.processedSHAs[Len(pr.cache.processedSHAs)] = pr.commits[pr.idx]
              /\ pr.processedCount = Len(pr.appended)

\* C9 witness: the file-list fetch failed and the row was written.
C9_Witness ==
  /\ proc[1].files = "error"
  /\ proc[1].wrote = "ok"
  /\ proc[1].pc = "delay"

\* C10: a failed detail fetch is answered with null inside the loop: no row
\* write is attempted for the commit, processedCount, skippedCount and the
\* cache are unchanged, the loop moves to the next commit, and a list entry
\* is fetched at most once (every visited entry was either skipped or
\* fetched once).
C10_DetailFailureContinues ==
  /\ [][\A p \in Procs :
          (proc[p].pc = "details" /\ Moved(p) /\ proc'[p].pc # "files")
          => /\ proc'[p].pc \in {"loop", "cleanup"}
             /\ proc'[p].idx = proc[p].idx + 1
             /\ proc'[p].nDetails = proc[p].nDetails + 1
             /\ proc'[p].nFiles = proc[p].nFiles
             /\ proc'[p].nWrites = proc[p].nWrites
             /\ proc'[p].processedCount = proc[p].processedCount
             /\ proc'[p].skippedCount = proc[p].skippedCount
             /\ proc'[p].cache = proc[p].cache
             /\ rows' = rows /\ file' = file]_vars
  /\ [](\A p \in Procs :
          proc[p].nDetails + proc[p].skippedCount
            = Len(proc[p].visited) - (IF proc[p].pc = "details" THEN 1 ELSE 0))

\* C10 witness: a finished run in which one of two detail fetches failed
\* and the other commit was written and saved.
C10_Witness ==
  /\ proc[1].pc = "done"
  /\ proc[1].nDetails = 2
  /\ proc[1].nFiles = 1
  /\ proc[1].processedCount = 1
  /\ proc[1].saved

\* C11: when the row write of a commit fails, createNotionCommit returns
\* false and nothing is raised: processedCount, totalProcessed and
\* processedSHAs are as before the attempt, no row is made, the loop goes on
\* (to the pause, then to the next commit), and no entry of the list gets a
\* second write attempt in the same run.
C11_WriteFailureContinues ==
  /\ [][\A p \in Procs :
          ( /\ proc[p].pc = "create"
            /\ Moved(p)
            /\ rows' = rows )
          => /\ proc'[p].pc = "delay"
             /\ proc'[p].nWrites = proc[p].nWrites + 1
             /\ proc'[p].processedCount = proc[p].processedCount
             /\ proc'[p].cache = proc[p].cache
             /\ proc'[p].appended = proc[p].appended
             /\ proc'[p].idx = proc[p].idx]_vars
  /\ [](\A p \in Procs :
          proc[p].nWrites + proc[p].skippedCount <= Len(proc[p].visited))

\* C11 witness: a run over two different commits has ended; the write of
\* the first failed, the second was written and recorded, and the cache was
\* saved.
C11_Witness ==
  /\ proc[1].pc = "done"
  /\ Len(proc[1].commits) = 2
  /\ proc[1].commits[1] # proc[1].commits[2]
  /\ proc[1].nWrites = 2
  /\ proc[1].appended = <<proc[1].commits[2]>>
  /\ proc[1].processedCount = 1
  /\ proc[1].saved

\* C12: loadCache never raises. When the cache file is missing or cannot be
\* parsed, the run gets a cache with empty processedSHAs and totalProcessed
\* 0 and goes on to its first list request, exactly as with a fresh cache;
\* the file itself is not touched by the load.
C12_LoadCacheNeverRaises ==
  [][\A p \in Procs :
       (proc[p].pc = "load" /\ Moved(p))
       => /\ proc'[p].pc = "probe"
          /\ proc'[p].exitCode = -1
          /\ file' = file
          /\ file.kind \in {"missing", "corrupt"}
               => /\ proc'[p].cache.processedSHAs = <<>>
                  /\ proc'[p].cache.totalProcessed = 0
                  /\ proc'[p].cache = FreshCache(now)]_vars

\* C12 witness: a run that found an unparseable cache file has written a
\* row, recorded it and saved a cache that counts from zero.
C12_Witness ==
  /\ proc[1].pc = "done"
  /\ proc[1].fileAtStart.kind = "corrupt"
  /\ proc[1].processedCount = 1
  /\ proc[1].saved
  /\ file.kind = "json"
  /\ file.totalProcessed = 1

\* The fields of a process that hold the result of its run: the counters and
\* the in-memory cache.
RunResult(pr) ==
  <<pr.processedCount, pr.skippedCount, pr.cache, pr.appended, pr.visited>>

\* C13: saveCache does not raise. Whether the write of the cache file
\* succeeds or fails, the save step ends the run normally (exit code 0) with
\* the same rows, the same processed and skipped counts and the same
\* in-memory cache as before the step; a successful save leaves the cache in
\* the file, a failed one leaves the file as it was when the run began.
C13_SaveFailureOnlyLosesFile ==
  /\ [][\A p \in Procs :
          (proc[p].pc = "save" /\ Moved(p))
          => /\ proc'[p].pc = "done"
             /\ proc'[p].exitCode = 0
             /\ RunResult(proc'[p]) = RunResult(proc[p])
             /\ rows' = rows
             /\ \/ proc'[p].saved /\ file' = JsonFile(proc[p].cache)
                \/ ~proc'[p].saved /\ file' = file]_vars
  /\ [](\A p \in Procs :
          (proc[p].pc = "done" /\ proc[p].nSaves = 1 /\ ~proc[p].saved)
          => file = proc[p].fileAtStart /\ proc[p].exitCode = 0)

\* C13 witness: a second run has loaded a saved cache, written and recorded
\* a new commit, and failed to save: the file still holds the first run's
\* cache while the in-memory cache has one identifier more.
C13_Witness ==
  /\ proc[1].pc = "done"
  /\ proc[1].nSaves = 1
  /\ ~proc[1].saved
  /\ proc[1].exitCode = 0
  /\ proc[1].processedCount = 1
  /\ file.kind = "json"
  /\ file = proc[1].fileAtStart
  /\ proc[1].cache.totalProcessed = file.totalProcessed + 1

\* A commit-list request of the run of process pr has failed.
ListRequestFailed(pr) ==
  \/ pr.probe = Threw
  \/ pr.primary = Threw
  \/ pr.fallback = Threw

\* C17: when a commit-list request fails (the probe, the primary request or
\* the fallback request), the failure is caught inside syncRecentCommits
\* and the run is over: no detail fetch, no row write, no trim and no cache
\* save were made, and the cache file and the rows are as they were when
\* the run began.
C17_ListFailureEndsRun ==
  \A p \in Procs :
    ListRequestFailed(proc[p])
    => /\ proc[p].pc = "done"
       /\ proc[p].exitCode = 0
       /\ proc[p].nDetails = 0
       /\ proc[p].nFiles = 0
       /\ proc[p].nWrites = 0
       /\ proc[p].nCleanups = 0
       /\ proc[p].nSaves = 0
       /\ ~proc[p].saved
       /\ file = proc[p].fileAtStart
       /\ rows = proc[p].rowsAtStart

\* C17 witness: a run that loaded a saved, non-empty cache got an empty
\* answer to its primary request and a failure of its fallback request.
C17_Witness ==
  /\ proc[1].pc = "done"
  /\ proc[1].primary = Answer(<<>>)
  /\ proc[1].fallback = Threw
  /\ proc[1].fileAtStart.kind = "json"
  /\ Len(proc[1].loaded.processedSHAs) > 0
  /\ file = proc[1].fileAtStart

\* The invocation recorded in argv holds the flag --clear-cache.
ClearAsked == Has(argv.args, ClearFlag)

\* No request to the host or to the destination was made by process pr, and
\* the cache file was neither read nor written by it.
NothingDone(pr) ==
  /\ pr.nLoads = 0
  /\ pr.probe = NoList /\ pr.primary = NoList /\ pr.fallback = NoList
  /\ pr.nDetails = 0 /\ pr.nFiles = 0 /\ pr.nWrites = 0
  /\ pr.nSaves = 0

IsInteger(arg) ==
  LET from == IF Len(arg) > 0 /\ arg[1] = "-" THEN 2 ELSE 1
  IN  /\ from <= Len(arg)
      /\ \A k \in from..Len(arg) : IsDigit(arg[k])

\* Process pr is in a sync, or has ended one.
SyncStarted(pr) == pr.pc = "load" \/ pr.nLoads > 0

\* The invocation exited with a non-zero status, with no request made and
\* the cache file neither read nor changed.
Rejected ==
  /\ proc[1].pc = "done"
  /\ proc[1].exitCode > 0
  /\ NothingDone(proc[1])
  /\ file = argv.file

\* C15: a sync is started only with a window in 1..365. Without the flag
\* --clear-cache: when the first argument is absent the window is 7; when
\* it is not a number, or a number outside [1, 365], the process exits with
\* a non-zero status, makes no request and leaves the cache file alone.
C15_WindowValidated ==
  (now > 0 /\ ~ClearAsked)
  => LET arg == FirstArg(argv.args) IN
     /\ SyncStarted(proc[1]) => proc[1].days \in 1..365
     /\ (arg = <<>> /\ SyncStarted(proc[1])) => proc[1].days = 7
     /\ (arg # <<>> /\ ~IsInteger(arg)) => Rejected
     /\ (IsInteger(arg) /\ parseInt(arg).val \notin 1..365) => Rejected

\* A token of the recorded invocation is missing.
TokenMissing == ~argv.env.NOTION_TOKEN \/ ~argv.env.GITHUB_TOKEN

\* The first argument of the recorded invocation gives a window main accepts.
WindowAccepted == ~InvalidDays(DaysOf(FirstArg(argv.args)))

PersistedTotal(f) == IF f.kind = "json" THEN f.totalProcessed ELSE 0

\* C18 as stated: over any sequence of sync runs and cache clears, the
\* persisted totalProcessed never decreases.
C18_TotalNeverDecreases ==
  [][PersistedTotal(file') >= PersistedTotal(file)]_vars

\* C18, amended: no step of a sync run decreases the persisted
\* totalProcessed, and the counter a run holds in memory is the one it
\* loaded plus its processedCount; only the deletion of the cache file by a
\* clear takes the counter away.
C18_TotalNeverDecreasesInSyncs ==
  /\ [][file'.kind # "missing"
          => PersistedTotal(file') >= PersistedTotal(file)]_vars
  /\ [](\A p \in Procs :
          proc[p].cache.totalProcessed
            = proc[p].loaded.totalProcessed + proc[p].processedCount)
  /\ [](\A p \in Procs :
          proc[p].nLoads > 0
          => proc[p].loaded.totalProcessed = PersistedTotal(proc[p].fileAtStart))

\* C18 witness: a second run has loaded a counter of at least 1, recorded a
\* commit and saved a larger counter.
C18_Witness ==
  /\ proc[1].pc = "done"
  /\ proc[1].saved
  /\ proc[1].loaded.totalProcessed >= 1
  /\ proc[1].processedCount >= 1
  /\ file.kind = "json"
  /\ file.totalProcessed > proc[1].fileAtStart.totalProcessed

\* a is c with some entries left out: the entries of a are entries of c, in
\* the order of c.
IsSubseq(a, c) ==
  \E f \in [1..Len(a) -> 1..Len(c)] :
    /\ \A i, j \in 1..Len(a) : i < j => f[i] < f[j]
    /\ \A i \in 1..Len(a) : a[i] = c[f[i]]

\* No entry of s occurs twice.
NoRepeat(s) == \A i, j \in 1..Len(s) : s[i] = s[j] => i = j

\* C19: when the loaded cache holds no identifier twice, processedSHAs holds
\* none twice at any point of the run, even when the commit list repeats an
\* identifier; the identifiers a run appends stand after the loaded ones,
\* in the order in which the host returned them (until the trim, which
\* keeps the end of that sequence).
C19_NoDuplicatesHostOrder ==
  \A p \in Procs :
    LET pr == proc[p]
        all == pr.loaded.processedSHAs \o pr.appended
    IN  /\ NoRepeat(pr.loaded.processedSHAs) => NoRepeat(pr.cache.processedSHAs)
        /\ NoRepeat(pr.appended)
        /\ IsSubseq(pr.appended, pr.commits)
        /\ IF pr.nCleanups = 0
             THEN pr.cache.processedSHAs = all
             ELSE IsLastOf(pr.cache.processedSHAs, all, MAX_CACHE_SIZE)

\* C19 witness: a run that loaded a non-empty cache went through a list
\* that holds a new identifier twice: the first entry was written and
\* appended, the second was skipped.
C19_Witness ==
  /\ proc[1].pc = "done"
  /\ Len(proc[1].loaded.processedSHAs) = 1
  /\ Len(proc[1].commits) = 2
  /\ proc[1].commits[1] = proc[1].commits[2]
  /\ proc[1].appended = <<proc[1].commits[1]>>
  /\ proc[1].skippedCount = 1
  /\ proc[1].saved

\* The labels of the rules of detectFeatureArea, in their order.
RuleLabel ==
  <<"Chat Interface", "BigQuery Integration", "AI/Claude API",
    "Database/Supabase", "UI/UX", "Testing", "Deployment", "Bug Fix">>

\* The condition of rule k holds of lower-cased message m and file text f.
RuleHolds(k, m, f) ==
  CASE k = 1 -> ChatRule(m, f)
    [] k = 2 -> BigQueryRule(m, f)
    [] k = 3 -> ClaudeRule(m, f)
    [] k = 4 -> DatabaseRule(m, f)
    [] k = 5 -> UiRule(m, f)
    [] k = 6 -> TestingRule(m, f)
    [] k = 7 -> DeploymentRule(m, f)
    [] k = 8 -> BugFixRule(m, f)

\* C20: detectFeatureArea is first-match-wins over its ordered rules: for
\* every message and file list the label is that of the first rule, in the
\* order Chat Interface, BigQuery Integration, AI/Claude API,
\* Database/Supabase, UI/UX, Testing, Deployment, Bug Fix, whose condition
\* holds, and 'Chat Interface' when none holds; so every message containing
\* 'chat', in any case, is labelled 'Chat Interface'.
C20_FirstMatchWins ==
  cdone
  => LET m == toLowerCase(cin.message)
         f == toLowerCase(join(cin.files, <<" ">>))
         hits == { k \in 1..8 : RuleHolds(k, m, f) }
     IN  /\ hits = {} => cout = "Chat Interface"
         /\ \A k \in hits :
              (\A j \in hits : k <= j) => cout = RuleLabel[k]
         /\ strIncludes(m, Keyword.chat) => cout = "Chat Interface"

\* C20 witness: 'fix chat bug' with no files, which the chat rule and the
\* bug-fix rule both match, has been labelled 'Chat Interface'.
C20_Witness ==
  /\ cdone
  /\ cin.message = <<"f", "i", "x", " ", "c", "h", "a", "t", " ", "b", "u", "g">>
  /\ cin.files = <<>>
  /\ cout = "Chat Interface"

\* C21: detectImpactLevel returns 'Major Feature' whenever the message holds
\* 'feat:' or 'feature:' or additions + deletions exceeds 200, whatever else
\* the message holds; otherwise the first that matches of fix:/bug ->
\* 'Bug Fix', refactor:/cleanup -> 'Refactor', docs:/readme ->
\* 'Documentation'; otherwise 'Minor Feature', for a total above 50 and for
\* a total of at most 50 alike.
C21_ImpactLevelRules ==
  cdone
  => LET m == toLowerCase(cin.message)
         total == cin.additions + cin.deletions
         major == \/ strIncludes(m, ImpactKeyword.feat)
                  \/ strIncludes(m, ImpactKeyword.feature)
                  \/ total > 200
         fix == strIncludes(m, ImpactKeyword.fix) \/ strIncludes(m, ImpactKeyword.bug)
         refactor == \/ strIncludes(m, ImpactKeyword.refactor)
                     \/ strIncludes(m, ImpactKeyword.cleanup)
         docs == strIncludes(m, ImpactKeyword.docs) \/ strIncludes(m, ImpactKeyword.readme)
     IN  /\ major => cout = "Major Feature"
         /\ (~major /\ fix) => cout = "Bug Fix"
         /\ (~major /\ ~fix /\ refactor) => cout = "Refactor"
         /\ (~major /\ ~fix /\ ~refactor /\ docs) => cout = "Documentation"
         /\ (~major /\ ~fix /\ ~refactor /\ ~docs) => cout = "Minor Feature"
         /\ cin = [message |-> <<"u", "p", "d", "a", "t", "e", " ", "c", "o", "p", "y">>, additions |-> 60, deletions |-> 0]
              => cout = "Minor Feature"
         /\ cin = [message |-> <<"s", "m", "a", "l", "l", " ", "t", "w", "e", "a", "k">>, additions |-> 5, deletions |-> 2]
              => cout = "Minor Feature"

\* C21 witness: 'feat: add widget' with 10 additions and 5 deletions has
\* been labelled 'Major Feature'.
C21_Witness ==
  /\ cdone
  /\ cin.message = <<"f", "e", "a", "t", ":", " ", "a", "d", "d", " ", "w", "i", "d", "g", "e", "t">>
  /\ cin.additions = 10
  /\ cin.deletions = 5
  /\ cout = "Major Feature"

\* The lower-cased message m holds w as a word of its own.
HasWord(m, w) == strIncludes(<<" ">> \o m \o <<" ">>, <<" ">> \o w \o <<" ">>)

\* The words the rules before the deployment rule look for in a message.
EarlierWords ==
  { Keyword.chat, Keyword.bigquery, Keyword.analytics, Keyword.claude,
    Keyword.ai, Keyword.anthropic, Keyword.supabase, Keyword.database,
    Keyword.auth, Keyword.ui, Keyword.style, Keyword.css, Keyword.test }

\* C22: a commit with no files whose message has the word build or deploy,
\* and no word for chat, analytics, AI, database, styling or tests, is
\* labelled 'Deployment' by detectFeatureArea: so are 'build pipeline' and
\* 'deploy pipeline'.
C22_BuildOrDeployIsDeployment ==
  (cdone /\ cin.files = <<>>)
  => LET m == toLowerCase(cin.message) IN
     /\ ( /\ HasWord(m, Keyword.build) \/ HasWord(m, Keyword.deploy)
          /\ \A w \in EarlierWords : ~HasWord(m, w) )
        => cout = "Deployment"
     /\ cin.message = <<"b", "u", "i", "l", "d", " ", "p", "i", "p", "e", "l", "i", "n", "e">> => cout = "Deployment"
     /\ cin.message = <<"d", "e", "p", "l", "o", "y", " ", "p", "i", "p", "e", "l", "i", "n", "e">> => cout = "Deployment"

\* C23: once the list to process is not empty, whatever cache hits, detail
\* failures and write failures occur, the run visits the commits of the
\* list one by one in list order, each once, and after the last one reaches
\* the trim, the lastSync update and the save: the visited entries are
\* always the first entries of the list, a run is past its loop only with
\* the whole list visited, it ends only after one trim and one save, and a
\* run in its loop does get there.
C23_LoopRunsToCompletion ==
  /\ [](LET pr == proc[1] IN
        /\ Len(pr.visited) <= Len(pr.commits)
        /\ pr.visited = SubSeq(pr.commits, 1, Len(pr.visited))
        /\ pr.pc \in {"loop", "details", "files", "create", "delay"}
             => /\ pr.idx \in 1..Len(pr.commits)
                /\ Len(pr.visited) = pr.idx - (IF pr.pc = "loop" THEN 1 ELSE 0)
        /\ pr.pc \in AfterLoop => pr.visited = pr.commits
        /\ (pr.pc = "done" /\ pr.commits # <<>>)
             => /\ pr.visited = pr.commits
                /\ pr.nCleanups = 1
                /\ pr.nSaves = 1
                /\ pr.cache.lastSync = now)
  /\ (proc[1].pc = "loop")
       ~> ( /\ proc[1].pc = "done"
            /\ proc[1].visited = proc[1].commits
            /\ proc[1].nCleanups = 1
            /\ proc[1].nSaves = 1 )

\* C23 witness: a finished and saved run over three entries: the first was
\* written, the second was a cache hit, the detail fetch of the third
\* failed.
C23_Witness ==
  /\ proc[1].pc = "done"
  /\ Len(proc[1].commits) = 3
  /\ proc[1].visited = proc[1].commits
  /\ proc[1].processedCount = 1
  /\ proc[1].skippedCount = 1
  /\ proc[1].nDetails = 2
  /\ proc[1].nFiles = 1
  /\ proc[1].saved

\* The sum of f over the finite set S.
RECURSIVE SumOver(_, _)
SumOver(f, S) ==
  IF S = {} THEN 0
  ELSE LET x == CHOOSE y \in S : TRUE IN f[x] + SumOver(f, S \ {x})

\* The rows made since the run of process pr began.
RowsMade(pr) == SumOver(rows, RowSet) - SumOver(pr.rowsAtStart, RowSet)

\* C24: in every run, whatever fails, the number of rows the run has made
\* equals its processedCount, the number of identifiers it has appended to
\* processedSHAs, and the growth of totalProcessed; an identifier is
\* appended only in the step that made its row.
C24_RowsMatchCounters ==
  \A p \in Procs :
    LET pr == proc[p] IN
    pr.nLoads > 0
    => /\ RowsMade(pr) = pr.processedCount
       /\ Len(pr.appended) = pr.processedCount
       /\ pr.cache.totalProcessed - pr.loaded.totalProcessed = pr.processedCount
       /\ pr.nCleanups = 0
            => Len(pr.cache.processedSHAs)
                 = Len(pr.loaded.processedSHAs) + pr.processedCount
       /\ \A k \in 1..Len(pr.appended) :
            rows[CommitRecord(pr.appended[k])]
              > pr.rowsAtStart[CommitRecord(pr.appended[k])]
       /\ pr.wrote = "failed" => ~Has(pr.appended, pr.commits[pr.idx])

\* C24 witness: a second run, with rows in the destination from the first,
\* has attempted three writes of which one failed, and counts 2.
C24_Witness ==
  /\ proc[1].pc = "done"
  /\ SumOver(proc[1].rowsAtStart, RowSet) >= 1
  /\ proc[1].nWrites = 3
  /\ proc[1].processedCount = 2
  /\ Len(proc[1].appended) = 2
  /\ RowsMade(proc[1]) = 2

\* The positions of a run inside its processing loop.
InLoop == {"loop", "details", "files", "create", "delay"}

\* C25: in a run that enters the processing loop, the cache file is not
\* written while the loop runs; after the last iteration cleanupCache is
\* called once, then lastSync is set, then saveCache is called once, in
\* that order, and only the save touches the file.
C25_TrimStampSaveInOrder ==
  \A p \in Procs :
    LET pr == proc[p] IN
    /\ pr.pc \in InLoop \cup {"cleanup"}
         => /\ pr.nCleanups = 0 /\ pr.nSaves = 0
            /\ pr.cache.lastSync = pr.loaded.lastSync
            /\ file = pr.fileAtStart
    /\ pr.pc = "stamp"
         => /\ pr.nCleanups = 1 /\ pr.nSaves = 0
            /\ pr.cache.lastSync = pr.loaded.lastSync
            /\ file = pr.fileAtStart
    /\ pr.pc = "save"
         => /\ pr.nCleanups = 1 /\ pr.nSaves = 0
            /\ pr.cache.lastSync = now
            /\ file = pr.fileAtStart
    /\ (pr.pc = "done" /\ pr.commits # <<>>)
         => /\ pr.nCleanups = 1 /\ pr.nSaves = 1
            /\ pr.cache.lastSync = now
            /\ \/ pr.saved /\ file.kind = "json" /\ file.lastSync = now
               \/ ~pr.saved /\ file = pr.fileAtStart

\* C25 witness: a second run stands before its save: it loaded the first
\* run's file, wrote a row, trimmed once and has set lastSync to the time
\* of this run, and the file is still the first run's.
C25_Witness ==
  /\ proc[1].pc = "save"
  /\ proc[1].fileAtStart.kind = "json"
  /\ file = proc[1].fileAtStart
  /\ proc[1].processedCount >= 1
  /\ proc[1].nCleanups = 1
  /\ proc[1].cache.lastSync = now
  /\ proc[1].loaded.lastSync < now

\* 1 when the run of pr is at one of the positions, 0 otherwise.
At(pr, positions) == IF pr.pc \in positions THEN 1 ELSE 0

\* C26 as stated: the pause is made in exactly the iterations that
\* attempted a detail fetch: between iterations, the run has paused as
\* often as it has fetched details.
C26_DelayIffDetailFetch ==
  \A p \in Procs :
    proc[p].pc \notin {"details", "files", "create", "delay"}
    => proc[p].nDelays = proc[p].nDetails

\* C26, amended: the pause is made in exactly the iterations whose detail
\* fetch succeeded, which are those that go on to the file list and the row
\* write; an iteration that skips a cached commit and an iteration whose
\* detail fetch fails go to the next commit without a pause.
C26_DelayIffDetailsFetched ==
  \A p \in Procs :
    LET pr == proc[p] IN
    /\ pr.nDelays = pr.nFiles - At(pr, {"create", "delay"})
    /\ pr.nFiles <= pr.nDetails
    /\ pr.nDetails + pr.skippedCount = Len(pr.visited) - At(pr, {"details"})
    /\ pr.pc = "delay" => pr.commitData # <<>>

\* C26 witness: a finished run over three entries with one cache hit, one
\* failed detail fetch and one write: two detail fetches, one pause.
C26_Witness ==
  /\ proc[1].pc = "done"
  /\ Len(proc[1].visited) = 3
  /\ proc[1].skippedCount = 1
  /\ proc[1].nDetails = 2
  /\ proc[1].nWrites = 1
  /\ proc[1].nDelays = 1

\* C27 as stated: what a run fetches, writes, caches and saves does not
\* depend on the outcome of the probe: a run that has made its probe goes
\* on to its date-filtered request, and does not end on the probe.
C27_ProbeOutcomeIgnored ==
  \A p \in Procs :
    (proc[p].probe.asked /\ proc[p].pc = "done") => proc[p].primary.asked

\* C27, amended: what a run fetches, writes, caches and saves does not
\* depend on the commits the probe answers with: the answer changes nothing
\* in the run but its position, and the list processed is the answer of
\* the date-filtered request or of the 30-day request, never the probe's.
\* Only a probe that fails matters: it ends the run.
C27_ProbeAnswerUnused ==
  /\ [][\A p \in Procs :
          (proc[p].pc = "probe" /\ Moved(p) /\ proc'[p].probe.ok)
          => /\ proc'[p] = [proc[p] EXCEPT !.pc = "primary",
                                           !.probe = proc'[p].probe]
             /\ file' = file /\ rows' = rows]_vars
  /\ [](\A p \in Procs :
          LET pr == proc[p] IN
          /\ pr.commits \in {<<>>, pr.primary.resp, pr.fallback.resp}
          /\ pr.visited = SubSeq(pr.commits, 1, Len(pr.visited))
          /\ IsSubseq(pr.appended, pr.commits)
          /\ pr.probe = Threw => pr.pc = "done" /\ ~pr.primary.asked)

\* C27 witness: the probe answered with one commit, the date-filtered
\* request with another, and the run has written, recorded and saved the
\* other one only.
C27_Witness ==
  /\ proc[1].pc = "done"
  /\ proc[1].probe.ok /\ Len(proc[1].probe.resp) = 1
  /\ proc[1].primary.ok /\ Len(proc[1].primary.resp) = 1
  /\ proc[1].probe.resp # proc[1].primary.resp
  /\ proc[1].appended = proc[1].primary.resp
  /\ proc[1].saved
  /\ file.kind = "json" /\ file.processedSHAs = proc[1].primary.resp

\* The run of pr is over a list that the run before it wrote entirely and
\* saved, no longer than the cache, and pr is past its loop.
RepeatsSavedRun(pr) ==
  /\ pr.prev.ran
  /\ pr.prev.saved
  /\ pr.prev.commits # <<>>
  /\ pr.prev.appended = pr.prev.commits
  /\ Len(pr.prev.commits) <= MAX_CACHE_SIZE
  /\ pr.commits = pr.prev.commits
  /\ pr.pc \in AfterLoop \cup {"done"}

\* C28: when a run has written every commit of a list, no longer than
\* MAX_CACHE_SIZE, and saved the cache, the run that follows over the same
\* list makes no detail fetch and no row, counts 0 processed and the whole
\* list skipped, and leaves processedSHAs and totalProcessed, in memory and
\* in the file, as they were.
C28_SecondRunSkipsAll ==
  \A p \in Procs :
    LET pr == proc[p] IN
    RepeatsSavedRun(pr)
    => /\ pr.nDetails = 0
       /\ pr.nWrites = 0
       /\ rows = pr.rowsAtStart
       /\ pr.processedCount = 0
       /\ pr.skippedCount = Len(pr.commits)
       /\ pr.cache.processedSHAs = pr.fileAtStart.processedSHAs
       /\ pr.cache.totalProcessed = pr.fileAtStart.totalProcessed
       /\ file.kind = "json"
       /\ file.processedSHAs = pr.fileAtStart.processedSHAs
       /\ file.totalProcessed = pr.fileAtStart.totalProcessed

\* C28 witness: the second run over a list of MAX_CACHE_SIZE commits that
\* the first run wrote and saved has ended and saved, all skipped.
C28_Witness ==
  /\ RepeatsSavedRun(proc[1])
  /\ proc[1].pc = "done"
  /\ proc[1].saved
  /\ Len(proc[1].commits) = MAX_CACHE_SIZE
  /\ proc[1].skippedCount = MAX_CACHE_SIZE

\* The identifier c, appended and saved by the run before, is in the file
\* the run pr has loaded.
KeptFromRunBefore(pr, c) ==
  /\ pr.prev.ran
  /\ pr.prev.saved
  /\ Has(pr.prev.appended, c)
  /\ pr.nLoads > 0
  /\ pr.fileAtStart.kind = "json"
  /\ Has(pr.fileAtStart.processedSHAs, c)

\* C29: every identifier appended to processedSHAs is a full identifier of
\* the commit list, the one of the iteration that wrote, and differs from
\* the truncated sha of the commit record that went into the row (an
\* identifier longer than SHORT_LEN is not its own short form); the saved
\* file holds full identifiers only; and a later run that meets an
\* identifier kept from the run before skips it: no second append, no row.
C29_FullShaIsCached ==
  \A p \in Procs :
    LET pr == proc[p] IN
    /\ \A k \in 1..Len(pr.appended) :
         /\ pr.appended[k] \in SHAS
         /\ Has(pr.commits, pr.appended[k])
         /\ Len(pr.appended[k]) > SHORT_LEN
            => pr.appended[k] # ShortSha(pr.appended[k])
    /\ (pr.pc = "delay" /\ pr.wrote = "ok")
       => /\ pr.appended # <<>>
          /\ pr.appended[Len(pr.appended)] = pr.commits[pr.idx]
          /\ pr.cache.processedSHAs[Len(pr.cache.processedSHAs)] = pr.commits[pr.idx]
          /\ pr.commitData.sha = ShortSha(pr.commits[pr.idx])
          /\ Len(pr.commits[pr.idx]) > SHORT_LEN
             => pr.commitData.sha # pr.commits[pr.idx]
          /\ rows[pr.commitData] > pr.rowsAtStart[pr.commitData]
    /\ file.kind = "json"
       => \A k \in 1..Len(file.processedSHAs) : file.processedSHAs[k] \in SHAS
    /\ \A k \in 1..Len(pr.visited) :
         KeptFromRunBefore(pr, pr.visited[k])
         => /\ commitExistsInCache(pr.visited[k], pr.cache)
            /\ ~Has(pr.appended, pr.visited[k])
            /\ rows[CommitRecord(pr.visited[k])]
                 = pr.rowsAtStart[CommitRecord(pr.visited[k])]

\* C29 witness: a run has ended after skipping a commit that the run before
\* wrote and saved under its full identifier, the row carrying the short
\* form.
C29_Witness ==
  /\ proc[1].pc = "done"
  /\ proc[1].commits # <<>>
  /\ KeptFromRunBefore(proc[1], proc[1].commits[1])
  /\ proc[1].skippedCount >= 1
  /\ rows[CommitRecord(proc[1].commits[1])] = 1
  /\ CommitRecord(proc[1].commits[1]).sha # proc[1].commits[1]

\* In a run over the list commits that loaded the identifiers loadedIds and
\* appended the identifiers appended, and whose loop has ended, commit c
\* failed: it was in the list, not skipped, and no attempt on it succeeded.
FailedIn(commits, loadedIds, appended, c) ==
  /\ Has(commits, c)
  /\ ~Has(loadedIds, c)
  /\ ~Has(appended, c)

\* Commit c failed in the run before the run pr.
FailedBefore(pr, c) ==
  /\ pr.prev.ran
  /\ FailedIn(pr.prev.commits, pr.prev.loaded, pr.prev.appended, c)

\* The failed commits of a run are in neither the cache in memory nor the
\* file the run leaves, and the next run does not load them.
FailedIsNotCached ==
  \A p \in Procs :
    LET pr == proc[p] IN
    /\ (pr.pc = "delay" /\ pr.wrote = "failed")
       => ~Has(pr.cache.processedSHAs, pr.commits[pr.idx])
    /\ pr.pc \in AfterLoop \cup {"done"}
       => \A c \in SHAS :
            FailedIn(pr.commits, pr.loaded.processedSHAs, pr.appended, c)
            => /\ ~Has(pr.cache.processedSHAs, c)
               /\ pr.pc = "done" => ~Has(file.processedSHAs, c)
    /\ pr.nLoads > 0
       => \A c \in SHAS :
            FailedBefore(pr, c) => ~Has(pr.loaded.processedSHAs, c)

\* The next run does not skip a commit that failed before: from the cache
\* test it goes to the detail fetch, which is made, and a row write that is
\* reached is made.
FailedIsTriedAgain ==
  \A p \in Procs :
    LET pr == proc[p]
        after == proc'[p] IN
    (/\ pr.pc \in InLoop
     /\ FailedBefore(pr, pr.commits[pr.idx])
     /\ ~Has(pr.appended, pr.commits[pr.idx])
     /\ after # pr)
    => /\ pr.pc = "loop"
          => /\ after.pc = "details"
             /\ after.skippedCount = pr.skippedCount
       /\ pr.pc = "details"
          => /\ after.nDetails = pr.nDetails + 1
             /\ after.pc \in {"files", "loop", "cleanup"}
       /\ pr.pc = "create"
          => /\ after.nWrites = pr.nWrites + 1
             /\ after.pc = "delay"

\* C30: a commit whose detail fetch or row write failed in a run is not in
\* processedSHAs, in memory or in the file the run leaves; the next run
\* whose list contains it does not skip it but fetches its details and,
\* having them, writes its row.
C30_FailedCommitRetried ==
  /\ []FailedIsNotCached
  /\ [][FailedIsTriedAgain]_vars

\* C30 witness: the row of a commit that failed in the run before has just
\* been written by the next run.
C30_Witness ==
  /\ proc[1].pc = "delay"
  /\ proc[1].wrote = "ok"
  /\ FailedBefore(proc[1], proc[1].commits[proc[1].idx])
  /\ proc[1].prev.saved
  /\ proc[1].nDetails >= 1
  /\ rows[proc[1].commitData] = 1

\* The two runs overlap: each has loaded the cache, and neither found a
\* file saved by the other.
Overlapping ==
  \A p \in Procs : proc[p].nLoads = 1 /\ proc[p].fileAtStart.kind # "json"

\* One step of two runs that may overlap. The cache test of a run skips a
\* commit exactly when the run loaded its identifier at its start or
\* appended it itself, whatever rows and file the other run has written
\* since; and a save replaces the identifiers of the file by those of the
\* saving run's cache, so that an identifier another run saved and this run
\* does not hold is gone.
OverlapStep ==
  \A p \in Procs :
    LET pr == proc[p]
        after == proc'[p] IN
    /\ (pr.pc = "loop" /\ after # pr)
       => LET c == pr.commits[pr.idx] IN
          /\ (after.skippedCount = pr.skippedCount + 1)
               <=> (Has(pr.loaded.processedSHAs, c) \/ Has(pr.appended, c))
          /\ (after.pc = "details")
               <=> ~(Has(pr.loaded.processedSHAs, c) \/ Has(pr.appended, c))
    /\ (after.nSaves = pr.nSaves + 1 /\ after.saved)
       => /\ file'.kind = "json"
          /\ file'.processedSHAs = pr.cache.processedSHAs
          /\ file'.totalProcessed = pr.cache.totalProcessed
          /\ \A c \in SHAS :
               (Has(file.processedSHAs, c) /\ ~Has(pr.cache.processedSHAs, c))
               => ~Has(file'.processedSHAs, c)

\* C31: two runs that overlap are not coordinated: each decides to skip or
\* to write a commit from its own copy of the cache, so both can make the
\* row of the same commit, and each save replaces what the file held, so
\* the later save drops the identifiers the other run saved.
C31_OverlappingRunsUnsafe == [][OverlapStep]_vars

\* C31 witness: two overlapping runs over the same list of two commits have
\* each made a row for the first commit; run 1 also wrote the second commit
\* and saved both identifiers, run 2 saved last, and the second identifier
\* is no longer in the file.
C31_Witness ==
  /\ Overlapping
  /\ proc[1].pc = "done" /\ proc[2].pc = "done"
  /\ proc[1].saved /\ proc[2].saved
  /\ Len(proc[1].commits) = 2
  /\ proc[2].commits = proc[1].commits
  /\ rows[CommitRecord(proc[1].commits[1])] = 2
  /\ proc[1].appended = proc[1].commits
  /\ proc[2].appended = <<proc[1].commits[1]>>
  /\ file.processedSHAs = proc[2].cache.processedSHAs
  /\ ~Has(file.processedSHAs, proc[1].commits[2])
  /\ rows[CommitRecord(proc[1].commits[2])] = 1

====
